---- MODULE Spec2Model ----
(***************************************************************************)
(* Status Cache Agent (src/sw.js).  The file holds three revisions of the  *)
(* service worker, told apart by their cache generation name:              *)
(*   "v4"  app-status-cache-v4  (lines 1-211,  cache first)                *)
(*   "v1"  app-status-cache-v1  (lines 213-289, network first, no TTL)     *)
(*   "v2"  app-status-cache-v2  (lines 291-478, network first, TTL)        *)
(* One revision is deployed in a behaviour (variable variant).  Handlers   *)
(* suspend at their awaits; every action below is one run of a handler     *)
(* between two awaits that touch shared state (cache, network, clients).   *)
(***************************************************************************)
EXTENDS Integers, Sequences, FiniteSets, TLC

\* ------------------------------------------------------------- bounds
MaxTicks == 1
MaxInFlight == 1
MaxBg == 1
MaxConcurrent == 3

\* ---------------------------------------------------------- constants
CACHE_TTL == 15 * 60 * 1000

Variants == {"v4", "v1", "v2"}

CacheName(v) ==
  CASE v = "v4" -> "app-status-cache-v4"
    [] v = "v1" -> "app-status-cache-v1"
    [] OTHER    -> "app-status-cache-v2"

AllNames == {CacheName(v) : v \in Variants}

\* URLs are sequences of tokens; a substring test is a contiguous
\* sub-sequence test on the tokens.
STATUS_URL == <<"https:", "damazinecol.github.io", "col", "status.json">>
BustedUrl == STATUS_URL \o <<"?t=1">>
LookalikeUrl == <<"https:", "damazinecol.github.io", "col", "archive", "status.json">>
OtherUrl == <<"https:", "damazinecol.github.io", "col", "index.html">>
Urls == {STATUS_URL, BustedUrl, LookalikeUrl, OtherUrl}

\* String.prototype.includes
Includes(url, needle) ==
  \E i \in 1..Len(url) :
    /\ i + Len(needle) - 1 <= Len(url)
    /\ SubSeq(url, i, i + Len(needle) - 1) = needle

\* The test each fetch listener applies to event.request.url
Intercepts(v, url) ==
  IF v = "v1" THEN Includes(url, STATUS_URL) ELSE Includes(url, <<"status.json">>)

Pages == {"p1", "p2"}
Tags == {"status-sync", "periodic-status-update", "other-tag"}

\* ---------------------------------------------------------- responses
NoDate == 0 - 1      \* lastUpdated absent
NaN == 0 - 2

Resp(type, status, body, st, msg, ts, hdr) ==
  [type |-> type, status |-> status, body |-> body, st |-> st, msg |-> msg,
   lastUpdated |-> ts, hdr |-> hdr]

NoResp == Resp("none", 0, "null", "", "", NoDate, "")
\* fetch() rejected (transport exception)
NetErr == Resp("error", 0, "null", "", "", NoDate, "")
OpaqueResp == Resp("opaque", 0, "null", "", "", NoDate, "")
Http404 == Resp("basic", 404, "html", "", "", NoDate, "text/html")
Record200(st, ts) == Resp("basic", 200, "record", st, "server", ts, "application/json")
NoTs200 == Resp("basic", 200, "nots", "maintenance", "server", NoDate, "application/json")

\* new Response(FALLBACK_RESPONSE, {headers: {'Content-Type': 'application/json'}})
\* FALLBACK_RESPONSE is built when the script is evaluated (time t).
FallbackResponse(t) ==
  Resp("default", 200, "record", "normal", "fallback", t, "application/json")

\* v4 install: the same body with the extra header X-Cache-Status: fallback
InstallFallback(t) ==
  Resp("default", 200, "record", "normal", "fallback", t,
       "application/json;x-cache-status=fallback")

\* The entry an earlier revision left under STATUS_URL in its own generation
StaleEntry == Resp("default", 200, "record", "normal", "fallback", 0, "application/json")

IsResponse(r) == r.type \in {"basic", "opaque", "default"}
\* Response.ok
Ok(r) == r.status >= 200 /\ r.status <= 299
\* Response.json() resolves (FALSE: it rejects)
JsonParses(r) == r.body \in {"record", "nots"}
\* new Date(x).getTime()
GetTime(x) == IF x >= 0 THEN x ELSE NaN
\* Date.now() - cachedTime < CACHE_TTL  (any comparison with NaN is false)
WithinTtl(t, cachedTime) == cachedTime # NaN /\ t - cachedTime < CACHE_TTL

\* What a fetch of the status resource can produce at time t
NetOutcomes(mode, t) ==
  {NetErr, Http404, NoTs200}
    \cup {Record200("maintenance", ts) : ts \in {0, t}}
    \cup (IF mode = "no-cors" THEN {OpaqueResp} ELSE {})

CacheKeyUrls == {STATUS_URL, BustedUrl}
EmptyCache == [k \in CacheKeyUrls |-> NoResp]

\* ------------------------------------------------------------- state
VARIABLES
  variant,     \* the deployed revision
  phase,       \* worker life cycle: parsed, installing, installed, activating, activated, redundant
  now,         \* wall clock (ms)
  ticks,       \* clock advances so far
  startTime,   \* when the script was evaluated (FALLBACK_RESPONSE.lastUpdated)
  cacheKeys,   \* caches.keys()
  cache,       \* entries of the current generation
  created,     \* install's caches.open(CACHE_NAME) succeeded
  controlled,  \* pages this worker controls
  claimed,     \* clients.claim() was performed
  act,         \* activate handler
  fetchH,      \* fetch handler
  msgH,        \* message handler
  syncH,       \* sync / periodicsync handler
  bg,          \* un-awaited cache writes in flight
  last         \* what the handler that completed last did

vars == <<variant, phase, now, ticks, startTime, cacheKeys, cache, created,
          controlled, claimed, act, fetchH, msgH, syncH, bg, last>>

CACHE_NAME == CacheName(variant)

NoObs ==
  [kind |-> "none", url |-> <<>>, src |-> "", outcome |-> "none",
   resp |-> NoResp, net |-> NoResp, cached |-> NoResp, read |-> "none",
   sfail |-> FALSE, rw |-> 0, msgs |-> {}, wrote |-> FALSE, upd |-> "none",
   fetched |-> FALSE, stray |-> FALSE, deleted |-> {}]

IdleAct == [pc |-> "idle", pending |-> {}, failed |-> {}, deleted |-> {}]
IdleFetch == [pc |-> "idle", url |-> <<>>, cached |-> NoResp,
              net |-> NoResp, read |-> "none", sfail |-> FALSE, rw |-> 0,
              stray |-> FALSE]
IdleMsg == [pc |-> "idle", src |-> "", net |-> NoResp, sfail |-> FALSE,
            wrote |-> FALSE, upd |-> "none", err |-> FALSE]
IdleSync == [pc |-> "idle", kind |-> "", net |-> NoResp]

Init ==
  /\ variant \in Variants
  /\ phase = "parsed"
  /\ now = CACHE_TTL
  /\ ticks = 0
  /\ startTime = CACHE_TTL
  /\ cacheKeys \in SUBSET (AllNames \ {CacheName(variant)})
  /\ cache = EmptyCache
  /\ created = FALSE
  /\ controlled = {}
  /\ claimed = FALSE
  /\ act = IdleAct
  /\ fetchH = IdleFetch
  /\ msgH = IdleMsg
  /\ syncH = IdleSync
  /\ bg = {}
  /\ last = NoObs

\* cache.match(key) on the current generation
Match(key) == IF CACHE_NAME \in cacheKeys THEN cache[key] ELSE NoResp

\* caches.match(request) (v1): every generation, oldest first
GlobalMatch(key) ==
  IF key = STATUS_URL /\ cacheKeys \ {CACHE_NAME} # {} THEN StaleEntry ELSE Match(key)

\* cache.put(key, r) without the overwrite: an existing entry is kept
PutIfAbsent(c, key, r) == IF c[key] = NoResp THEN [c EXCEPT ![key] = r] ELSE c

\* cache.put(key, r): the entry under key is replaced as a whole
Put(c, key, r) == [c EXCEPT ![key] = r]

\* the handlers suspended at an await
InFlight ==
  Cardinality({h \in {"f", "m", "s"} :
     \/ h = "f" /\ fetchH.pc # "idle"
     \/ h = "m" /\ msgH.pc # "idle"
     \/ h = "s" /\ syncH.pc # "idle"})

\* ------------------------------------------------------------- clock
Tick ==
  /\ phase = "activated"
  /\ ticks < MaxTicks
  /\ \E d \in {1, CACHE_TTL} : now' = now + d
  /\ ticks' = ticks + 1
  /\ last' = NoObs
  /\ UNCHANGED <<variant, phase, startTime, cacheKeys, cache, created,
                 controlled, claimed, act, fetchH, msgH, syncH, bg>>

\* ----------------------------------------------------------- install
\* What install leaves in the generation, given the fetch outcome o and
\* whether the first and the second cache.put succeed.
InstallEntry(v, o, t, put1, put2) ==
  CASE v = "v4" -> IF put1 THEN InstallFallback(t) ELSE NoResp
    [] v = "v1" -> IF IsResponse(o) /\ Ok(o) /\ put1 THEN o ELSE NoResp
    [] OTHER    -> IF IsResponse(o) /\ Ok(o) /\ put1 THEN o
                   ELSE IF put2 THEN FallbackResponse(t) ELSE NoResp

\* install listener: caches.open rejects
InstallOpenFails ==
  /\ phase = "parsed"
  /\ phase' = IF variant = "v1" THEN "redundant" ELSE "installed"
  /\ last' = [NoObs EXCEPT !.kind = "install", !.sfail = TRUE,
                !.outcome = IF variant = "v1" THEN "rejected" ELSE "resolved"]
  /\ UNCHANGED <<variant, now, ticks, startTime, cacheKeys, cache, created,
                 controlled, claimed, act, fetchH, msgH, syncH, bg>>

\* install listener: caches.open resolves, then the entry is stored
InstallStore ==
  /\ phase = "parsed"
  /\ \E o \in NetOutcomes("cors", now), put1 \in BOOLEAN, put2 \in BOOLEAN :
       LET e == InstallEntry(variant, o, startTime, put1, put2) IN
       /\ cache' = [cache EXCEPT ![STATUS_URL] = e]
       /\ last' = [NoObs EXCEPT !.kind = "install", !.outcome = "resolved",
                     !.net = IF variant = "v4" THEN NoResp ELSE o,
                     !.fetched = (variant # "v4"),
                     !.sfail = ~put1 \/ ~put2,
                     !.wrote = (e # NoResp)]
  /\ cacheKeys' = cacheKeys \cup {CACHE_NAME}
  /\ created' = TRUE
  /\ phase' = "installed"
  /\ UNCHANGED <<variant, now, ticks, startTime, controlled, claimed, act,
                 fetchH, msgH, syncH, bg>>

\* ---------------------------------------------------------- activate
\* StaleKeys without the comparison with CACHE_NAME
StaleKeysAll(keys, name) == keys

\* The generations the activate listener deletes
StaleKeys(keys, name) == {k \in keys : k # name}

\* caches.delete(k)
Delete(k) ==
  /\ cacheKeys' = cacheKeys \ {k}
  /\ cache' = IF k = CACHE_NAME THEN EmptyCache ELSE cache

\* activate listener starts; v4 claims the clients before anything else
ActivateEvent ==
  /\ phase = "installed"
  /\ phase' = "activating"
  /\ act' = [IdleAct EXCEPT !.pc = "keys"]
  /\ claimed' = (variant = "v4")
  /\ controlled' = IF variant = "v4" THEN Pages ELSE controlled
  /\ last' = NoObs
  /\ UNCHANGED <<variant, now, ticks, startTime, cacheKeys, cache, created,
                 fetchH, msgH, syncH, bg>>

\* caches.keys() resolves: every stale generation's delete is started
ActKeys ==
  /\ act.pc = "keys"
  /\ act' = [act EXCEPT !.pc = "deleting", !.pending = StaleKeys(cacheKeys, CACHE_NAME)]
  /\ last' = NoObs
  /\ UNCHANGED <<variant, phase, now, ticks, startTime, cacheKeys, cache, created,
                 controlled, claimed, fetchH, msgH, syncH, bg>>

\* one caches.delete resolves
ActDelete(k) ==
  /\ k \in act.pending
  /\ Delete(k)
  /\ act' = [act EXCEPT !.pending = @ \ {k},
                !.deleted = IF act.pc = "deleting" THEN @ \cup {k} ELSE @]
  /\ last' = NoObs
  /\ UNCHANGED <<variant, phase, now, ticks, startTime, created, controlled,
                 claimed, fetchH, msgH, syncH, bg>>

\* one caches.delete rejects
ActDeleteFails(k) ==
  /\ k \in act.pending
  /\ act' = [act EXCEPT !.pending = @ \ {k}, !.failed = @ \cup {k}]
  /\ last' = NoObs
  /\ UNCHANGED <<variant, phase, now, ticks, startTime, cacheKeys, cache, created,
                 controlled, claimed, fetchH, msgH, syncH, bg>>

\* Promise.all rejects on the first failed delete: the waitUntil promise
\* rejects, a .then(claim) chained on it (v2) is skipped.
ActReject ==
  /\ act.pc = "deleting"
  /\ act.failed # {}
  /\ act' = [act EXCEPT !.pc = "settled", !.deleted = {}]
  /\ phase' = "activated"
  /\ last' = [NoObs EXCEPT !.kind = "activate", !.outcome = "rejected", !.sfail = TRUE,
                !.deleted = act.deleted]
  /\ UNCHANGED <<variant, now, ticks, startTime, cacheKeys, cache, created,
                 controlled, claimed, fetchH, msgH, syncH, bg>>

\* Promise.all resolves; v2 then claims the clients
ActResolve ==
  /\ act.pc = "deleting"
  /\ act.pending = {}
  /\ act.failed = {}
  /\ act' = [act EXCEPT !.pc = "settled", !.deleted = {}]
  /\ phase' = "activated"
  /\ claimed' = (claimed \/ variant = "v2")
  /\ controlled' = IF variant = "v2" THEN Pages ELSE controlled
  /\ last' = [NoObs EXCEPT !.kind = "activate", !.outcome = "resolved",
                !.deleted = act.deleted]
  /\ UNCHANGED <<variant, now, ticks, startTime, cacheKeys, cache, created,
                 fetchH, msgH, syncH, bg>>

\* the pages in scope are loaded again once the worker is active: they are
\* controlled without any clients.claim()
Navigate ==
  /\ phase = "activated"
  /\ controlled # Pages
  /\ controlled' = Pages
  /\ last' = NoObs
  /\ UNCHANGED <<variant, phase, now, ticks, startTime, cacheKeys, cache, created,
                 claimed, act, fetchH, msgH, syncH, bg>>

\* ------------------------------------------------------------- fetch
FetchObs(h, outcome, resp, wrote) ==
  [NoObs EXCEPT !.kind = "fetch", !.url = h.url,
     !.outcome = outcome, !.resp = resp, !.net = h.net, !.cached = h.cached,
     !.read = h.read, !.sfail = h.sfail, !.rw = h.rw, !.wrote = wrote,
     !.fetched = (h.net # NoResp), !.stray = h.stray]

\* FinalFallback with the hardcoded response built without its headers
FinalFallbackBare(cached, t) ==
  IF cached # NoResp THEN cached
  ELSE Resp("default", 200, "record", "normal", "fallback", t, "")

\* v4 step 3: "Final fallback to cached or hardcoded response"
FinalFallback(cached, t) == IF cached # NoResp THEN cached ELSE FallbackResponse(t)

\* v4 step 1 on the matched entry c at time t: serve it, go to the network,
\* or throw (json() rejects) into the outer catch
V4CacheDecision(c, t) ==
  IF c = NoResp THEN "fetch"
  ELSE IF ~JsonParses(c) THEN "throw"
  ELSE IF WithinTtl(t, GetTime(c.lastUpdated)) THEN "serve"
  ELSE "fetch"

\* v2 catch branch on the matched entry c at time t
V2CatchDecision(c, t) ==
  IF c = NoResp THEN "fallback"
  ELSE IF ~JsonParses(c) THEN "throw"
  ELSE IF WithinTtl(t, GetTime(c.lastUpdated)) THEN "serve"
  ELSE "fallback"

\* v1 catch: cached || new Response(JSON.stringify({..., lastUpdated: new Date()}))
V1CatchResult(c, t) == IF c # NoResp THEN c ELSE FallbackResponse(t)

\* a fetch event whose URL passes the listener's test: respondWith(async ...).
\* v4 has no return after it and runs into line 106: the argument
\* fetch(event.request) is evaluated (a network request is issued, field
\* stray), then the second respondWith throws InvalidStateError.
FetchIntercept(p, url) ==
  /\ phase = "activated"
  /\ p \in controlled
  /\ fetchH.pc = "idle"
  /\ Intercepts(variant, url)
  /\ fetchH' = [IdleFetch EXCEPT !.pc = IF variant = "v4" THEN "cache" ELSE "net",
                  !.url = url, !.rw = IF variant = "v4" THEN 2 ELSE 1,
                  !.stray = (variant = "v4")]
  /\ last' = NoObs
  /\ UNCHANGED <<variant, phase, now, ticks, startTime, cacheKeys, cache, created,
                 controlled, claimed, act, msgH, syncH, bg>>

\* any other URL: v4 answers with fetch(event.request), v1 and v2 return
FetchPassThrough(p, url) ==
  /\ phase = "activated"
  /\ p \in controlled
  /\ fetchH.pc = "idle"
  /\ ~Intercepts(variant, url)
  /\ last' = [NoObs EXCEPT !.kind = "fetch", !.url = url,
                !.outcome = "passthrough", !.rw = IF variant = "v4" THEN 1 ELSE 0]
  /\ UNCHANGED <<variant, phase, now, ticks, startTime, cacheKeys, cache, created,
                 controlled, claimed, act, fetchH, msgH, syncH, bg>>

\* the handler's promise settles
FetchDone(h, outcome, resp, wrote) ==
  /\ last' = FetchObs(h, outcome, resp, wrote)
  /\ fetchH' = IdleFetch

\* v4 line 40: caches.open rejects, outside every try
V4OpenFails ==
  /\ variant = "v4" /\ fetchH.pc = "cache"
  /\ FetchDone([fetchH EXCEPT !.sfail = TRUE, !.read = "failed"], "rejected", NoResp, FALSE)
  /\ UNCHANGED <<variant, phase, now, ticks, startTime, cacheKeys, cache, created,
                 controlled, claimed, act, msgH, syncH, bg>>

\* v4 line 45: cache.match rejects, caught by the outer catch
V4MatchFails ==
  /\ variant = "v4" /\ fetchH.pc = "cache"
  /\ cacheKeys' = cacheKeys \cup {CACHE_NAME}
  /\ FetchDone([fetchH EXCEPT !.sfail = TRUE, !.read = "failed"], "resolved",
               FallbackResponse(startTime), FALSE)
  /\ UNCHANGED <<variant, phase, now, ticks, startTime, cache, created,
                 controlled, claimed, act, msgH, syncH, bg>>

\* v4 lines 40-54: open, match, parse, TTL test
V4CacheStep ==
  /\ variant = "v4" /\ fetchH.pc = "cache"
  /\ cacheKeys' = cacheKeys \cup {CACHE_NAME}
  /\ LET c == Match(STATUS_URL)
         d == V4CacheDecision(c, now)
         h == [fetchH EXCEPT !.cached = c,
                 !.read = IF c = NoResp THEN "absent" ELSE "hit"]
     IN CASE d = "serve" -> FetchDone(h, "resolved", c, FALSE)
          [] d = "throw" -> FetchDone(h, "resolved", FallbackResponse(startTime), FALSE)
          [] OTHER       -> /\ fetchH' = [h EXCEPT !.pc = "net"]
                            /\ last' = NoObs
  /\ UNCHANGED <<variant, phase, now, ticks, startTime, cache, created,
                 controlled, claimed, act, msgH, syncH, bg>>

\* v4 lines 58-82: the network fetch settles
V4Net ==
  /\ variant = "v4" /\ fetchH.pc = "net"
  /\ \E o \in NetOutcomes("no-cors", now) :
       LET h == [fetchH EXCEPT !.net = o] IN
       CASE o.type = "opaque" ->
              /\ Cardinality(bg) < MaxBg
              /\ bg' = bg \cup {[key |-> STATUS_URL, resp |-> o]}
              /\ FetchDone(h, "resolved", o, FALSE)
         [] IsResponse(o) /\ o.type # "opaque" /\ Ok(o) ->
              /\ fetchH' = [h EXCEPT !.pc = "put"]
              /\ last' = NoObs
            /\ UNCHANGED bg
         [] OTHER ->
              /\ FetchDone(h, "resolved", FinalFallback(h.cached, startTime), FALSE)
              /\ UNCHANGED bg
  /\ UNCHANGED <<variant, phase, now, ticks, startTime, cacheKeys, cache, created,
                 controlled, claimed, act, msgH, syncH>>

\* v4 line 77: await cache.put resolves
V4Put ==
  /\ variant = "v4" /\ fetchH.pc = "put"
  /\ cache' = Put(cache, STATUS_URL, fetchH.net)
  /\ FetchDone(fetchH, "resolved", fetchH.net, cache' # cache)
  /\ UNCHANGED <<variant, phase, now, ticks, startTime, cacheKeys, created,
                 controlled, claimed, act, msgH, syncH, bg>>

\* v4 line 77: await cache.put rejects, caught as a network error (line 80)
V4PutFails ==
  /\ variant = "v4" /\ fetchH.pc = "put"
  /\ FetchDone([fetchH EXCEPT !.sfail = TRUE], "resolved",
               FinalFallback(fetchH.cached, startTime), FALSE)
  /\ UNCHANGED <<variant, phase, now, ticks, startTime, cacheKeys, cache, created,
                 controlled, claimed, act, msgH, syncH, bg>>

\* v2 lines 347-358: the network fetch settles
V2Net ==
  /\ variant = "v2" /\ fetchH.pc = "net"
  /\ \E o \in NetOutcomes("cors", now) :
       fetchH' = [fetchH EXCEPT !.net = o,
                    !.pc = IF IsResponse(o) /\ Ok(o) THEN "put" ELSE "catch"]
  /\ last' = NoObs
  /\ UNCHANGED <<variant, phase, now, ticks, startTime, cacheKeys, cache, created,
                 controlled, claimed, act, msgH, syncH, bg>>

\* v2 lines 364-367: open and put resolve
V2Put ==
  /\ variant = "v2" /\ fetchH.pc = "put"
  /\ cacheKeys' = cacheKeys \cup {CACHE_NAME}
  /\ cache' = Put(cache, STATUS_URL, fetchH.net)
  /\ FetchDone(fetchH, "resolved", fetchH.net, cache' # cache)
  /\ UNCHANGED <<variant, phase, now, ticks, startTime, created,
                 controlled, claimed, act, msgH, syncH, bg>>

\* v2 lines 364-365: open or put rejects, into the catch branch
V2PutFails ==
  /\ variant = "v2" /\ fetchH.pc = "put"
  /\ fetchH' = [fetchH EXCEPT !.pc = "catch", !.sfail = TRUE]
  /\ last' = NoObs
  /\ UNCHANGED <<variant, phase, now, ticks, startTime, cacheKeys, cache, created,
                 controlled, claimed, act, msgH, syncH, bg>>

\* v2 lines 372-390: open, match, parse, TTL test
V2Catch ==
  /\ variant = "v2" /\ fetchH.pc = "catch"
  /\ cacheKeys' = cacheKeys \cup {CACHE_NAME}
  /\ LET c == Match(STATUS_URL)
         d == V2CatchDecision(c, now)
         h == [fetchH EXCEPT !.cached = c,
                 !.read = IF c = NoResp THEN "absent" ELSE "hit"]
     IN CASE d = "serve" -> FetchDone(h, "resolved", c, FALSE)
          [] d = "throw" -> FetchDone(h, "rejected", NoResp, FALSE)
          [] OTHER       -> FetchDone(h, "resolved", FallbackResponse(startTime), FALSE)
  /\ UNCHANGED <<variant, phase, now, ticks, startTime, cache, created,
                 controlled, claimed, act, msgH, syncH, bg>>

\* v2 lines 372-373: open or match rejects inside the catch branch
V2CatchFails ==
  /\ variant = "v2" /\ fetchH.pc = "catch"
  /\ FetchDone([fetchH EXCEPT !.sfail = TRUE, !.read = "failed"], "rejected", NoResp, FALSE)
  /\ UNCHANGED <<variant, phase, now, ticks, startTime, cacheKeys, cache, created,
                 controlled, claimed, act, msgH, syncH, bg>>

\* v1 lines 238-248: fetch(event.request) settles; any response is returned
\* and its clone is put under event.request without being awaited
V1Net ==
  /\ variant = "v1" /\ fetchH.pc = "net"
  /\ \E o \in NetOutcomes("no-cors", now) :
       LET h == [fetchH EXCEPT !.net = o] IN
       IF IsResponse(o)
       THEN /\ Cardinality(bg) < MaxBg
            /\ bg' = bg \cup {[key |-> fetchH.url, resp |-> o]}
            /\ FetchDone(h, "resolved", o, FALSE)
       ELSE /\ fetchH' = [h EXCEPT !.pc = "catch"]
            /\ last' = NoObs
            /\ UNCHANGED bg
  /\ UNCHANGED <<variant, phase, now, ticks, startTime, cacheKeys, cache, created,
                 controlled, claimed, act, msgH, syncH>>

\* v1 lines 249-259: caches.match(event.request) resolves
V1Catch ==
  /\ variant = "v1" /\ fetchH.pc = "catch"
  /\ LET c == GlobalMatch(fetchH.url)
         h == [fetchH EXCEPT !.cached = c,
                 !.read = IF c = NoResp THEN "absent" ELSE "hit"]
     IN FetchDone(h, "resolved", V1CatchResult(c, now), FALSE)
  /\ UNCHANGED <<variant, phase, now, ticks, startTime, cacheKeys, cache, created,
                 controlled, claimed, act, msgH, syncH, bg>>

\* v1 line 251: caches.match rejects
V1CatchFails ==
  /\ variant = "v1" /\ fetchH.pc = "catch"
  /\ FetchDone([fetchH EXCEPT !.sfail = TRUE, !.read = "failed"], "rejected", NoResp, FALSE)
  /\ UNCHANGED <<variant, phase, now, ticks, startTime, cacheKeys, cache, created,
                 controlled, claimed, act, msgH, syncH, bg>>

\* an un-awaited cache.put resolves
BgCommit(w) ==
  /\ w \in bg
  /\ bg' = bg \ {w}
  /\ cacheKeys' = cacheKeys \cup {CACHE_NAME}
  /\ cache' = Put(cache, w.key, w.resp)
  /\ last' = NoObs
  /\ UNCHANGED <<variant, phase, now, ticks, startTime, created,
                 controlled, claimed, act, fetchH, msgH, syncH>>

\* an un-awaited cache.put rejects (v4 logs it, v1 leaves it unhandled)
BgFail(w) ==
  /\ w \in bg
  /\ bg' = bg \ {w}
  /\ last' = NoObs
  /\ UNCHANGED <<variant, phase, now, ticks, startTime, cacheKeys, cache, created,
                 controlled, claimed, act, fetchH, msgH, syncH>>

FetchStep ==
  \/ V4OpenFails \/ V4MatchFails \/ V4CacheStep \/ V4Net \/ V4Put \/ V4PutFails
  \/ V2Net \/ V2Put \/ V2PutFails \/ V2Catch \/ V2CatchFails
  \/ V1Net \/ V1Catch \/ V1CatchFails

\* ----------------------------------------------------------- message
Msg(to, type, success, error, stamped, data) ==
  [to |-> to, type |-> type, success |-> success, error |-> error,
   timestamp |-> stamped, data |-> data]

\* V4Broadcast reporting success on both paths
V4BroadcastAlwaysOk(clients, ok) ==
  {Msg(c, "STATUS_UPDATED", "true", FALSE, TRUE, NoResp) : c \in clients}

\* v4 lines 125-132 / 135-142: one STATUS_UPDATED per client of clients.matchAll()
V4Broadcast(clients, ok) ==
  {Msg(c, "STATUS_UPDATED", IF ok THEN "true" ELSE "false", ~ok, ok, NoResp) : c \in clients}

\* v2 lines 410-413 / 417-421: one UPDATE_COMPLETE to event.source
V2Reply(source, ok) ==
  {Msg(source, "UPDATE_COMPLETE", IF ok THEN "true" ELSE "false", ~ok, FALSE, NoResp)}

MsgObs(h, outcome, msgs) ==
  [NoObs EXCEPT !.kind = "message", !.src = h.src, !.outcome = outcome,
     !.net = h.net, !.sfail = h.sfail, !.wrote = h.wrote, !.upd = h.upd,
     !.msgs = msgs, !.fetched = (h.net # NoResp)]

MsgDone(h, outcome, msgs) ==
  /\ last' = MsgObs(h, outcome, msgs)
  /\ msgH' = IdleMsg

\* a page posts {type: 'UPDATE_STATUS'}
MessageEvent(p) ==
  /\ phase = "activated"
  /\ msgH.pc = "idle"
  /\ msgH' = [IdleMsg EXCEPT !.pc = IF variant = "v4" THEN "fetch" ELSE "update", !.src = p]
  /\ last' = NoObs
  /\ UNCHANGED <<variant, phase, now, ticks, startTime, cacheKeys, cache, created,
                 controlled, claimed, act, fetchH, syncH, bg>>

\* a page posts a message of another type: every listener ignores it
MessageIgnored(p) ==
  /\ phase = "activated"
  /\ msgH.pc = "idle"
  /\ last' = [NoObs EXCEPT !.kind = "message", !.src = p, !.outcome = "ignored"]
  /\ UNCHANGED <<variant, phase, now, ticks, startTime, cacheKeys, cache, created,
                 controlled, claimed, act, fetchH, msgH, syncH, bg>>

\* v4 line 116: caches.open rejects, inside the try
M4OpenFails ==
  /\ variant = "v4" /\ msgH.pc = "fetch"
  /\ msgH' = [msgH EXCEPT !.pc = "notifyFail", !.sfail = TRUE]
  /\ last' = NoObs
  /\ UNCHANGED <<variant, phase, now, ticks, startTime, cacheKeys, cache, created,
                 controlled, claimed, act, fetchH, syncH, bg>>

\* v4 lines 116-120: open resolves, the fetch settles
M4Fetch ==
  /\ variant = "v4" /\ msgH.pc = "fetch"
  /\ cacheKeys' = cacheKeys \cup {CACHE_NAME}
  /\ \E o \in NetOutcomes("no-cors", now) :
       msgH' = [msgH EXCEPT !.net = o,
                  !.pc = IF IsResponse(o) THEN "put" ELSE "notifyFail"]
  /\ last' = NoObs
  /\ UNCHANGED <<variant, phase, now, ticks, startTime, cache, created,
                 controlled, claimed, act, fetchH, syncH, bg>>

\* v4 line 123: await cache.put resolves
M4Put ==
  /\ variant = "v4" /\ msgH.pc = "put"
  /\ cache' = Put(cache, STATUS_URL, msgH.net)
  /\ msgH' = [msgH EXCEPT !.pc = "notifyOk", !.wrote = TRUE]
  /\ last' = NoObs
  /\ UNCHANGED <<variant, phase, now, ticks, startTime, cacheKeys, created,
                 controlled, claimed, act, fetchH, syncH, bg>>

\* v4 line 123: await cache.put rejects
M4PutFails ==
  /\ variant = "v4" /\ msgH.pc = "put"
  /\ msgH' = [msgH EXCEPT !.pc = "notifyFail", !.sfail = TRUE]
  /\ last' = NoObs
  /\ UNCHANGED <<variant, phase, now, ticks, startTime, cacheKeys, cache, created,
                 controlled, claimed, act, fetchH, syncH, bg>>

\* v4 lines 125-132 and 135-142: clients.matchAll() resolves, the clients are told
M4Notify ==
  /\ variant = "v4" /\ msgH.pc \in {"notifyOk", "notifyFail"}
  /\ MsgDone(msgH, "resolved", V4Broadcast(controlled, msgH.pc = "notifyOk"))
  /\ UNCHANGED <<variant, phase, now, ticks, startTime, cacheKeys, cache, created,
                 controlled, claimed, act, fetchH, syncH, bg>>

\* v2 lines 406-422: self.registration.update() settles, the sender is told
M2Update ==
  /\ variant = "v2" /\ msgH.pc = "update"
  /\ \E ok \in BOOLEAN :
       MsgDone([msgH EXCEPT !.upd = IF ok THEN "ok" ELSE "failed"], "resolved",
               V2Reply(msgH.src, ok))
  /\ UNCHANGED <<variant, phase, now, ticks, startTime, cacheKeys, cache, created,
                 controlled, claimed, act, fetchH, syncH, bg>>

\* v1 line 271: self.registration.update() settles; nothing is chained on it
M1Update ==
  /\ variant = "v1" /\ msgH.pc = "update"
  /\ \E ok \in BOOLEAN :
       MsgDone([msgH EXCEPT !.upd = IF ok THEN "ok" ELSE "failed"],
               IF ok THEN "resolved" ELSE "rejected", {})
  /\ UNCHANGED <<variant, phase, now, ticks, startTime, cacheKeys, cache, created,
                 controlled, claimed, act, fetchH, syncH, bg>>

MessageStep ==
  \/ M4OpenFails \/ M4Fetch \/ M4Put \/ M4PutFails \/ M4Notify \/ M2Update \/ M1Update

\* ------------------------------------------------ sync, periodicsync
\* the tag each listener of revision v answers to ("" : no such listener)
SyncTag(v, kind) ==
  CASE kind = "sync" /\ v \in {"v4", "v2"} -> "status-sync"
    [] kind = "periodicsync" /\ v = "v4"   -> "periodic-status-update"
    [] OTHER                               -> ""

\* v2 lines 464-471: BACKGROUND_UPDATE with the parsed record to every client
V2Background(clients, data) ==
  {Msg(c, "BACKGROUND_UPDATE", "none", FALSE, FALSE, data) : c \in clients}

SyncObs(h, outcome, msgs, sfail, wrote) ==
  [NoObs EXCEPT !.kind = h.kind, !.outcome = outcome, !.net = h.net,
     !.sfail = sfail, !.wrote = wrote, !.msgs = msgs, !.fetched = (h.net # NoResp)]

SyncDone(h, outcome, msgs, sfail, wrote) ==
  /\ last' = SyncObs(h, outcome, msgs, sfail, wrote)
  /\ syncH' = IdleSync

\* a sync or periodicsync event with the tag the listener waits for
SyncEvent(kind, tag) ==
  /\ phase = "activated"
  /\ syncH.pc = "idle"
  /\ tag = SyncTag(variant, kind)
  /\ syncH' = [IdleSync EXCEPT !.pc = IF variant = "v4" THEN "open" ELSE "fetch",
                 !.kind = kind]
  /\ last' = NoObs
  /\ UNCHANGED <<variant, phase, now, ticks, startTime, cacheKeys, cache, created,
                 controlled, claimed, act, fetchH, msgH, bg>>

\* v4 lines 177 / 199: caches.open rejects, before the try
S4OpenFails ==
  /\ variant = "v4" /\ syncH.pc = "open"
  /\ SyncDone(syncH, "rejected", {}, TRUE, FALSE)
  /\ UNCHANGED <<variant, phase, now, ticks, startTime, cacheKeys, cache, created,
                 controlled, claimed, act, fetchH, msgH, bg>>

\* v4 lines 177-182 / 199-203: open resolves, the fetch settles
S4Fetch ==
  /\ variant = "v4" /\ syncH.pc = "open"
  /\ cacheKeys' = cacheKeys \cup {CACHE_NAME}
  /\ \E o \in NetOutcomes("no-cors", now) :
       LET h == [syncH EXCEPT !.net = o] IN
       IF IsResponse(o)
       THEN /\ syncH' = [h EXCEPT !.pc = "put"]
            /\ last' = NoObs
       ELSE SyncDone(h, "resolved", {}, FALSE, FALSE)
  /\ UNCHANGED <<variant, phase, now, ticks, startTime, cache, created,
                 controlled, claimed, act, fetchH, msgH, bg>>

\* v4 lines 183 / 204: await cache.put resolves
S4Put ==
  /\ variant = "v4" /\ syncH.pc = "put"
  /\ cache' = Put(cache, STATUS_URL, syncH.net)
  /\ SyncDone(syncH, "resolved", {}, FALSE, TRUE)
  /\ UNCHANGED <<variant, phase, now, ticks, startTime, cacheKeys, created,
                 controlled, claimed, act, fetchH, msgH, bg>>

\* v4 lines 183 / 204: await cache.put rejects, logged
S4PutFails ==
  /\ variant = "v4" /\ syncH.pc = "put"
  /\ SyncDone(syncH, "resolved", {}, TRUE, FALSE)
  /\ UNCHANGED <<variant, phase, now, ticks, startTime, cacheKeys, cache, created,
                 controlled, claimed, act, fetchH, msgH, bg>>

\* v2 lines 453-475: fetch, ok test, json(), broadcast; failures logged
S2Fetch ==
  /\ variant = "v2" /\ syncH.pc = "fetch"
  /\ \E o \in NetOutcomes("cors", now) :
       LET h == [syncH EXCEPT !.net = o] IN
       IF IsResponse(o) /\ Ok(o) /\ JsonParses(o)
       THEN SyncDone(h, "resolved", V2Background(controlled, o), FALSE, FALSE)
       ELSE SyncDone(h, "resolved", {}, FALSE, FALSE)
  /\ UNCHANGED <<variant, phase, now, ticks, startTime, cacheKeys, cache, created,
                 controlled, claimed, act, fetchH, msgH, bg>>

SyncStep == S4OpenFails \/ S4Fetch \/ S4Put \/ S4PutFails \/ S2Fetch

\* the event dispatcher starts a handler
Dispatch ==
  \/ \E p \in Pages, url \in Urls : FetchIntercept(p, url)
  \/ \E p \in Pages : MessageEvent(p)
  \/ \E kind \in {"sync", "periodicsync"}, tag \in Tags : SyncEvent(kind, tag)

Next ==
  \/ Tick
  \/ InstallOpenFails
  \/ InstallStore
  \/ ActivateEvent
  \/ ActKeys
  \/ \E k \in AllNames : ActDelete(k) \/ ActDeleteFails(k)
  \/ ActReject
  \/ ActResolve
  \/ Navigate
  \/ InFlight < MaxInFlight /\ Dispatch
  \/ \E p \in Pages, url \in Urls : FetchPassThrough(p, url)
  \/ FetchStep
  \/ \E w \in bg : BgCommit(w) \/ BgFail(w)
  \/ \E p \in Pages : MessageIgnored(p)
  \/ MessageStep
  \/ SyncStep

Spec == Init /\ [][Next]_vars

\* ------------------------------------------- concurrent handlers (v4)
\* The v4 worker installed and activated, no stale generation, the
\* installed entry one TTL old: the state Spec reaches by InstallStore,
\* ActivateEvent, ActKeys, ActResolve, Tick.
InitConcurrent ==
  /\ variant = "v4"
  /\ phase = "activated"
  /\ now = 2 * CACHE_TTL
  /\ ticks = MaxTicks
  /\ startTime = CACHE_TTL
  /\ cacheKeys = {CacheName("v4")}
  /\ cache = Put(EmptyCache, STATUS_URL, InstallFallback(CACHE_TTL))
  /\ created = TRUE
  /\ controlled = Pages
  /\ claimed = TRUE
  /\ act = [IdleAct EXCEPT !.pc = "settled"]
  /\ fetchH = IdleFetch
  /\ msgH = IdleMsg
  /\ syncH = IdleSync
  /\ bg = {}
  /\ last = NoObs

\* fetch, message, sync and periodicsync handlers of v4 interleaved at
\* their awaits, up to MaxConcurrent of them suspended at once
NextConcurrent ==
  \/ InFlight < MaxConcurrent /\ Dispatch
  \/ V4OpenFails \/ V4MatchFails \/ V4CacheStep \/ V4Net \/ V4Put \/ V4PutFails
  \/ \E w \in bg : BgCommit(w) \/ BgFail(w)
  \/ M4OpenFails \/ M4Fetch \/ M4Put \/ M4PutFails \/ M4Notify
  \/ S4OpenFails \/ S4Fetch \/ S4Put \/ S4PutFails

SpecConcurrent == InitConcurrent /\ [][NextConcurrent]_vars

\* ============================================================ claims
\* The monitored resource: the status URL, with or without a cache-busting token
IsMonitored(url) == url \in {STATUS_URL, BustedUrl}

\* the body is JSON with status, message and lastUpdated
HasStatusShape(r) == r.body = "record"

\* a fetch of the status resource failed: exception, or a readable
\* response with a non-success status
NetworkFailed(o) == o = NetErr \/ (o.type = "basic" /\ ~Ok(o))

\* a readable 200 response carrying a Status Record
LiveRecord(o) == o.type = "basic" /\ o.status = 200 /\ HasStatusShape(o)

\* C1: in the revisions v4 and v2, every intercepted request for the
\* monitored URL resolves (never rejects) to a response whose body is JSON
\* with status, message and lastUpdated.
C1_AlwaysStatusRecord ==
  (last.kind = "fetch" /\ variant \in {"v4", "v2"} /\ IsMonitored(last.url))
    => (last.outcome = "resolved" /\ HasStatusShape(last.resp))

\* C2: in v4 and v2, whenever the handler's network fetch returned a
\* readable 200 Status Record, the response given to the caller is that
\* record and, when the handler completes, the entry under STATUS_URL is it.
C2_LiveRecordReturnedAndCached ==
  (last.kind = "fetch" /\ variant \in {"v4", "v2"} /\ LiveRecord(last.net))
    => (/\ last.outcome = "resolved"
        /\ last.resp = last.net
        /\ Match(STATUS_URL) = last.net)

\* the current generation holds, under STATUS_URL, a record younger than the TTL
FreshEntryCached ==
  LET e == Match(STATUS_URL) IN
  /\ e # NoResp /\ HasStatusShape(e) /\ e.lastUpdated >= 0
  /\ now - e.lastUpdated < CACHE_TTL

\* C3: when the network fetch raised an exception, no cache operation
\* failed and the cache holds a fresh entry for the status URL, the handler
\* returns that entry and has written nothing.
C3_FreshEntryReturned ==
  (/\ last.kind = "fetch" /\ IsMonitored(last.url)
   /\ last.net = NetErr /\ ~last.sfail /\ FreshEntryCached)
    => (/\ last.outcome = "resolved"
        /\ last.resp = Match(STATUS_URL)
        /\ ~last.wrote)

\* C4: in v4 and v2, when the network attempt failed, no cache operation
\* failed and the matched entry is a record older than the TTL, the handler
\* returns that entry, not the hardcoded fallback.
C4_ExpiredEntryWins ==
  (/\ last.kind = "fetch" /\ variant \in {"v4", "v2"} /\ IsMonitored(last.url)
   /\ NetworkFailed(last.net) /\ ~last.sfail
   /\ last.read = "hit" /\ HasStatusShape(last.cached)
   /\ last.cached.lastUpdated >= 0 /\ now - last.cached.lastUpdated > CACHE_TTL)
    => (last.outcome = "resolved" /\ last.resp = last.cached)

\* C5: in v4 and v2, when the network fetch failed and the handler's cache
\* lookup found no entry for the status URL, the handler resolves to the
\* locally built Fallback Record: status "normal", Content-Type
\* application/json.
C5_FallbackWhenNothingCached ==
  (/\ last.kind = "fetch" /\ variant \in {"v4", "v2"}
   /\ NetworkFailed(last.net) /\ last.read = "absent")
    => (/\ last.outcome = "resolved"
        /\ last.resp.type = "default" /\ HasStatusShape(last.resp)
        /\ last.resp.st = "normal" /\ last.resp.msg = "fallback"
        /\ last.resp.hdr = "application/json")

C5_Witness ==
  /\ last.kind = "fetch" /\ variant = "v4" /\ last.url = STATUS_URL
  /\ last.net = NetErr /\ last.read = "absent"
  /\ last.resp = FallbackResponse(startTime)

C7_DeleteFailureBlocksNothing ==
  (/\ phase = "activated" /\ variant \in {"v4", "v2"}
   /\ act.failed # {} /\ act.pending = {})
    => (claimed /\ cacheKeys \ {CACHE_NAME} \subseteq act.failed)

\* the network operation of the message handler raised a transport
\* exception: the status fetch (v4), registration.update() (v2)
RefreshTransportFailed == last.net = NetErr \/ last.upd = "failed"

\* C8 (as stated): in v4 and v2, when ExplicitRefresh meets a transport
\* exception the handler resolves and the requesting page is sent
\* {type: "UPDATE_COMPLETE", success: false, error: <string>}.
C8_UpdateCompleteFailure ==
  (last.kind = "message" /\ variant \in {"v4", "v2"} /\ RefreshTransportFailed)
    => (/\ last.outcome = "resolved"
        /\ \E m \in last.msgs :
             /\ m.to = last.src /\ m.type = "UPDATE_COMPLETE"
             /\ m.success = "false" /\ m.error)

\* C8 (amended): in v4 and v2, when ExplicitRefresh meets a transport
\* exception the handler resolves and the only messages it sends are
\* failure messages {success: false, error: <string>}: one UPDATE_COMPLETE
\* to the requesting page in v2, one STATUS_UPDATED to every controlled
\* page in v4.
C8_FailureMessageSent ==
  (last.kind = "message" /\ variant \in {"v4", "v2"} /\ RefreshTransportFailed)
    => (/\ last.outcome = "resolved"
        /\ \A m \in last.msgs :
             /\ m.success = "false" /\ m.error
             /\ m.type = IF variant = "v2" THEN "UPDATE_COMPLETE" ELSE "STATUS_UPDATED"
        /\ {m.to : m \in last.msgs} = IF variant = "v2" THEN {last.src} ELSE controlled)

C8_Witness ==
  /\ last.kind = "message" /\ variant = "v4" /\ last.net = NetErr
  /\ {m.to : m \in last.msgs} = Pages
  /\ \A m \in last.msgs : m.type = "STATUS_UPDATED" /\ m.success = "false"

\* C9: in v4 and v2, an UPDATE_STATUS handler none of whose cache
\* operations failed has written the response its fetch returned, and it
\* sends a success notification only after having written to the cache.
C9_WriteThenNotify ==
  (last.kind = "message" /\ variant \in {"v4", "v2"}
   /\ last.outcome # "ignored" /\ ~last.sfail)
    => (/\ IsResponse(last.net) => last.wrote
        /\ (\E m \in last.msgs : m.success = "true") => last.wrote)

\* C10: a request whose URL is not the monitored resource is passed
\* through: no status fetch, no cache write, no response from the
\* cache/network/fallback policy (stated for handlers that met no
\* cache-storage failure).
C10_OthersPassThrough ==
  (last.kind = "fetch" /\ ~IsMonitored(last.url) /\ ~last.sfail)
    => (last.outcome = "passthrough" /\ ~last.fetched /\ ~last.wrote)

\* the keys of the current generation that hold an entry
Entries == {k \in CacheKeyUrls : Match(k) # NoResp}

\* C11: the current generation never holds more than one entry for the
\* monitored resource, and never an entry keyed by a URL carrying the
\* cache-busting token.
C11_OneEntryUnderStatusUrl ==
  Cardinality(Entries) <= 1 /\ BustedUrl \notin Entries

\* the Fallback Record: status "normal", built locally
IsFallbackRecord(r) ==
  r.type = "default" /\ HasStatusShape(r) /\ r.st = "normal" /\ r.msg = "fallback"

\* C12: the install handler never rejects; when no cache operation failed
\* it has attempted a network fetch of the status URL, the entry is the
\* fetched response when the fetch succeeded and the Fallback Record when
\* it failed, and the generation holds exactly one entry.
C12_InitializeStoresOneEntry ==
  last.kind = "install"
    => (/\ last.outcome = "resolved"
        /\ ~last.sfail
             => (/\ last.fetched
                 /\ IF IsResponse(last.net) /\ Ok(last.net)
                    THEN Match(STATUS_URL) = last.net
                    ELSE IsFallbackRecord(Match(STATUS_URL))
                 /\ Cardinality(Entries) = 1))

\* the body is not JSON, or the record has no usable lastUpdated
Malformed(r) == ~JsonParses(r) \/ GetTime(r.lastUpdated) = NaN

\* C13: in v4 and v2, when the entry matched for the status URL is
\* malformed, the handler resolves and the response it returns is not that
\* entry.
C13_MalformedEntryNotReturned ==
  (/\ last.kind = "fetch" /\ variant \in {"v4", "v2"}
   /\ last.read = "hit" /\ Malformed(last.cached))
    => (last.outcome = "resolved" /\ last.resp # last.cached)

\* C14: in v4 and v2, a handler one of whose cache operations failed still
\* resolves, and returns the live response when the network had returned a
\* readable 2xx response.
C14_StorageFailureDoesNotAbort ==
  (last.kind = "fetch" /\ variant \in {"v4", "v2"} /\ last.sfail)
    => (/\ last.outcome = "resolved"
        /\ (last.net.type = "basic" /\ Ok(last.net)) => last.resp = last.net)

\* C15: a sync or periodicsync handler whose fetch raised an exception or
\* one of whose cache operations failed resolves, sends no message and has
\* not written to the cache.
C15_BackgroundFailureOnlyLogged ==
  (/\ last.kind \in {"sync", "periodicsync"}
   /\ (last.net = NetErr \/ last.sfail))
    => (last.outcome = "resolved" /\ last.msgs = {} /\ ~last.wrote)

\* C16: in the cache-first revision (v4), when the matched entry is a
\* record younger than the TTL and no cache operation failed, the entry is
\* returned, no network fetch is issued for the event and nothing is
\* written to the cache.
C16_FreshHitTouchesNoNetwork ==
  (/\ last.kind = "fetch" /\ variant = "v4" /\ ~last.sfail
   /\ last.read = "hit" /\ HasStatusShape(last.cached)
   /\ last.cached.lastUpdated >= 0
   /\ now - last.cached.lastUpdated < CACHE_TTL)
    => (/\ last.outcome = "resolved" /\ last.resp = last.cached
        /\ ~last.fetched /\ ~last.stray
        /\ ~last.wrote)

\* C17: in v4 and v2, a matched record whose age is exactly the TTL is
\* treated as fresh: it is the response returned, and the cache-first
\* revision returns it without a network attempt.
C17_AgeEqualTtlIsFresh ==
  (/\ last.kind = "fetch" /\ variant \in {"v4", "v2"} /\ ~last.sfail
   /\ last.read = "hit" /\ HasStatusShape(last.cached)
   /\ last.cached.lastUpdated >= 0
   /\ now - last.cached.lastUpdated = CACHE_TTL)
    => (/\ last.resp = last.cached
        /\ variant = "v4" => ~last.fetched)

\* the responses whose cache.put has been started and has not settled
PendingWrites ==
  (IF fetchH.pc = "put" THEN {fetchH.net} ELSE {})
    \cup (IF msgH.pc = "put" THEN {msgH.net} ELSE {})
    \cup (IF syncH.pc = "put" THEN {syncH.net} ELSE {})
    \cup {w.resp : w \in bg}

\* one step of the interleaved v4 handlers: a cache.put that completes
\* leaves its response as the entry, whatever was written before; the
\* entry changes only to the whole response of a write in flight; no key
\* but STATUS_URL is written and the entry is never removed
LastWriteWinsStep ==
  /\ (fetchH.pc = "put" /\ last'.kind = "fetch" /\ ~last'.sfail)
       => cache'[STATUS_URL] = fetchH.net
  /\ (msgH.pc = "put" /\ msgH'.pc = "notifyOk")
       => cache'[STATUS_URL] = msgH.net
  /\ (syncH.pc = "put" /\ last'.kind \in {"sync", "periodicsync"} /\ ~last'.sfail)
       => cache'[STATUS_URL] = syncH.net
  /\ cache' # cache => cache'[STATUS_URL] \in PendingWrites
  /\ cache'[BustedUrl] = NoResp
  /\ cache'[STATUS_URL] # NoResp
  /\ CACHE_NAME \in cacheKeys'

\* C18: under every interleaving of the v4 fetch, message, sync and
\* periodicsync handlers at their awaits, the entry for the status URL is
\* always the response of the cache.put that completed last, and it is
\* never missing, duplicated under another key or partially written.
C18_LastWriteWins == [][LastWriteWinsStep]_vars

\* the message handler has written its response, then the fetch handler
\* running beside it completed its put of a different response
C18_Witness ==
  /\ variant = "v4" /\ msgH.pc = "notifyOk"
  /\ last.kind = "fetch" /\ last.wrote /\ last.net # msgH.net
  /\ cache[STATUS_URL] = last.net

\* C19: for every fetch event the listener calls respondWith at most once.
C19_RespondWithAtMostOnce ==
  last.kind = "fetch" => last.rw <= 1

\* the matched entry cannot be served: none, unreadable body, or not
\* within the TTL at time t
Unusable(read, c, t) ==
  \/ read = "absent"
  \/ read = "hit" /\ (~JsonParses(c) \/ ~WithinTtl(t, GetTime(c.lastUpdated)))

\* C20: in v4 and v2, an intercept that met no cache-storage failure and
\* found the entry absent, expired or unreadable (an opaque response
\* included) has issued a network fetch of the status URL.
C20_UnusableEntryGoesToNetwork ==
  (/\ last.kind = "fetch" /\ variant \in {"v4", "v2"} /\ ~last.sfail
   /\ last.outcome # "passthrough"
   /\ Unusable(last.read, last.cached, now))
    => last.fetched

====
